---- MODULE Spec2Model ----
(***************************************************************************)
(* Model of the per-connection message loop of chatai_llm_tts:             *)
(* handle_websocket / send_error (src/src/websocket_handler.py), the       *)
(* message models (src/src/models.py) and the two upstream clients         *)
(* (src/src/llm_service.py, src/src/tts_service.py).                       *)
(*                                                                         *)
(* Python values: a str is a TLA+ string (Len, \o and SubSeq act on it as  *)
(* len, + and slicing), bytes is a sequence of 0..255, and an Optional[T]  *)
(* is a sequence of length at most one: None is <<>>, a value v is <<v>>.  *)
(* One step of the model is the code between two awaits of the handler;    *)
(* the client and the two upstream services are the environment.           *)
(* Spec is one connection, FairSpec adds the scheduling of its task, and   *)
(* SpecConns runs two connections side by side.                            *)
(***************************************************************************)
EXTENDS Integers, Sequences, FiniteSets, TLC

\* ------------------------------------------------------------------ bounds
\* Number of inbound frames the client sends on the connection.
MaxMsgs == 2
\* Number of inbound frames each of the concurrent connections receives.
MaxConnMsgs == 2

\* -------------------------------------------------------- program constants
min_length == 1
max_length == 2000

\* --------------------------------------------------------- Python Optional
None == <<>>
Some(v) == <<v>>

\* s repeated n times (builds the long texts of the inputs)
RECURSIVE Rep(_, _)
Rep(s, n) ==
    IF n = 0 THEN ""
    ELSE LET h == Rep(s, n \div 2)
         IN  IF n % 2 = 0 THEN h \o h ELSE h \o h \o s

\* static configuration read by the two clients (src/config.py)
settings ==
    [ llm_model       |-> "llm-model",
      llm_max_tokens  |-> 150,
      llm_temperature |-> "0.7",
      tts_model       |-> "tts-model",
      tts_voice       |-> "voice",
      request_timeout |-> 30 ]

\* ---------------------------------------------------------------- base64
B64Chars ==
    << "A","B","C","D","E","F","G","H","I","J","K","L","M","N","O","P",
       "Q","R","S","T","U","V","W","X","Y","Z","a","b","c","d","e","f",
       "g","h","i","j","k","l","m","n","o","p","q","r","s","t","u","v",
       "w","x","y","z","0","1","2","3","4","5","6","7","8","9","+","/" >>

Sextet(n, k) == B64Chars[((n \div (64 ^ k)) % 64) + 1]

\* base64.b64encode(audio_bytes).decode('utf-8'): every output byte is
\* ASCII, so the decoded str has one character per output byte.
RECURSIVE b64encode(_)
b64encode(bs) ==
    IF Len(bs) = 0 THEN ""
    ELSE IF Len(bs) = 1 THEN
        LET n == bs[1] * 65536
        IN  Sextet(n, 3) \o Sextet(n, 2) \o "=="
    ELSE IF Len(bs) = 2 THEN
        LET n == bs[1] * 65536 + bs[2] * 256
        IN  Sextet(n, 3) \o Sextet(n, 2) \o Sextet(n, 1) \o "="
    ELSE
        LET n == bs[1] * 65536 + bs[2] * 256 + bs[3]
        IN  Sextet(n, 3) \o Sextet(n, 2) \o Sextet(n, 1) \o Sextet(n, 0)
              \o b64encode(SubSeq(bs, 4, Len(bs)))

\* ------------------------------------------------------------- the inputs
\* texts a client may put in the text field
Texts == { "", "H", "Hello", Rep("x", max_length), Rep("x", max_length + 1) }

\* JSON values are tagged records [t, s, text]: t is the JSON type, s the
\* characters of a string, and text the text member of an object (None when
\* the key is absent), the one member the validator consults.
JsonString(s) == [t |-> "string", s |-> s, text |-> None]
JsonNumber    == [t |-> "number", s |-> "", text |-> None]
JsonArray     == [t |-> "array",  s |-> "", text |-> None]
JsonObject(text) == [t |-> "object", s |-> "", text |-> text]

\* inbound frames: a text frame that is not JSON, or a JSON document
InFrames ==
    { [kind |-> "notjson", data |-> JsonString("hello")],
      [kind |-> "json", data |-> JsonArray],
      [kind |-> "json", data |-> JsonString("Hello")],
      [kind |-> "json", data |-> JsonObject(None)],
      [kind |-> "json", data |-> JsonObject(Some(JsonNumber))] }
    \cup { [kind |-> "json", data |-> JsonObject(Some(JsonString(s)))] : s \in Texts }

\* what the chat-completion endpoint may answer
GenTexts == { "", "Hi there" }
LlmOutcomes ==
    { [kind |-> "ok", content |-> g] : g \in GenTexts }
    \cup { [kind |-> k, content |-> ""] : k \in {"status", "format", "transport"} }

\* what the speech endpoint may answer
AudioSamples == { <<>>, <<0, 1>>, <<255>>, <<73, 68, 51, 4>> }
TtsOutcomes ==
    { [kind |-> "ok", content |-> b, status |-> 200] : b \in AudioSamples }
    \cup { [kind |-> "status", content |-> <<>>, status |-> s] : s \in {400, 500} }
    \cup { [kind |-> k, content |-> <<>>, status |-> 0] : k \in {"timeout", "connect", "other"} }

\* ------------------------------------------------------------ the state
VARIABLES
    pc,            \* the await the handler is suspended at
    chan,          \* the client channel: "open" or "broken"
    nRecv,         \* inbound frames read so far
    message,       \* Optional: text of the validated ClientMessage
    llm_response,  \* what get_llm_response returned (Optional[str])
    audio_bytes,   \* what get_tts_audio returned
    response,      \* Optional: the audio ServerMessage as dumped, ready to send
    err,           \* the error_message send_error is called with
    raised,        \* Optional: the exception that left handle_websocket
    closeAttempts, \* calls of websocket.close
    close_failed,  \* websocket.close raised (and was swallowed)
    req,           \* history: Optional, the inbound frame being answered
    sent,          \* history: send_json calls for req, [frame, ok]
    llm_calls,     \* history: arguments of get_llm_response calls for req
    tts_calls,     \* history: arguments of get_tts_audio calls for req
    llm_result,    \* history: Optional, the chat endpoint's outcome for req
    tts_result,    \* history: Optional, the speech endpoint's outcome for req
    send_failed,   \* history: some send_json call on the connection raised
    log,           \* history: every send_json call of the connection, in
                   \* order: [n: the number of the message being answered,
                   \* type: the frame's type, ok: the send succeeded]
    disc_at,       \* history: Optional, the await the handler was suspended
                   \* at when the client channel broke
    cs             \* the connections served concurrently: for each, the
                   \* locals of its handle_websocket task and its history

vars == << pc, chan, nRecv, message, llm_response, audio_bytes, response, err,
           raised, closeAttempts, close_failed, req, sent, llm_calls,
           tts_calls, llm_result, tts_result, send_failed, log, disc_at, cs >>

\* --------------------------------------------------------------- models.py
\* ClientMessage without the max_length constraint
ClientMessageNoMax(data) ==
    IF data.t # "object" THEN [exc |-> Some("TypeError"), text |-> ""]
    ELSE IF data.text = None THEN [exc |-> Some("ValidationError"), text |-> ""]
    ELSE IF data.text[1].t # "string" THEN [exc |-> Some("ValidationError"), text |-> ""]
    ELSE IF Len(data.text[1].s) < min_length
         THEN [exc |-> Some("ValidationError"), text |-> ""]
    ELSE [exc |-> None, text |-> data.text[1].s]

\* ClientMessage(**data): the field text is required, a str, and has
\* min_length <= len(text) <= max_length; ** needs a mapping.
ClientMessage(data) ==
    IF data.t # "object" THEN [exc |-> Some("TypeError"), text |-> ""]
    ELSE IF data.text = None THEN [exc |-> Some("ValidationError"), text |-> ""]
    ELSE IF data.text[1].t # "string" THEN [exc |-> Some("ValidationError"), text |-> ""]
    ELSE IF Len(data.text[1].s) < min_length \/ Len(data.text[1].s) > max_length
         THEN [exc |-> Some("ValidationError"), text |-> ""]
    ELSE [exc |-> None, text |-> data.text[1].s]

\* ServerMessage(...): the four declared fields, the Optional ones None by default
ServerMessage(type, audio_data, llm_text, error_message) ==
    [ type |-> Some(type), audio_data |-> audio_data,
      llm_text |-> llm_text, error_message |-> error_message ]

\* ServerMessage.model_dump: the fields whose value is not None
model_dump(m) ==
    [ k \in { f \in DOMAIN m : m[f] # None } |-> m[k][1] ]

\* ---------------------------------------------------------- llm_service.py
\* The request body built for one call.
LlmPayload(user_text) ==
    [ model       |-> settings.llm_model,
      messages    |-> << [role |-> "user", content |-> user_text] >>,
      max_tokens  |-> settings.llm_max_tokens,
      temperature |-> settings.llm_temperature ]

\* get_llm_response: the first choice's content on a 2xx answer of the
\* expected shape; both except clauses print and fall off the end of the
\* function, so every failure returns None.
get_llm_response(user_text, outcome) ==
    IF outcome.kind = "ok" THEN Some(outcome.content) ELSE None

\* ---------------------------------------------------------- tts_service.py
\* The request body built for one call; text is what the handler passes.
TtsPayload(text) ==
    [ model |-> settings.tts_model, input |-> text,
      voice |-> settings.tts_voice, response_format |-> "mp3" ]

\* get_tts_audio: the response body, or Exception(<message>)
get_tts_audio(text, outcome) ==
    IF outcome.kind = "ok" THEN [exc |-> None, content |-> outcome.content]
    ELSE IF outcome.kind = "status"
         THEN [exc |-> Some("OpenAI TTS error: " \o ToString(outcome.status)), content |-> <<>>]
    ELSE IF outcome.kind = "timeout"
         THEN [exc |-> Some("TTS timeout after " \o ToString(settings.request_timeout) \o "s"),
               content |-> <<>>]
    ELSE IF outcome.kind = "connect"
         THEN [exc |-> Some("Cannot connect to OpenAI"), content |-> <<>>]
    ELSE [exc |-> Some("TTS error: " \o "unexpected"), content |-> <<>>]

\* ----------------------------------------------------- websocket_handler.py
\* websocket.receive_json on a connected channel: json.loads of the frame
receive_json(frame) ==
    IF frame.kind = "notjson" THEN [exc |-> Some("JSONDecodeError"), data |-> frame.data]
    ELSE [exc |-> None, data |-> frame.data]

\* the ServerMessage built on the success path, lines 47-51
AudioMessage(audio_base64, llm_text) ==
    ServerMessage("audio", Some(audio_base64), llm_text, None)

\* send_error putting the last generated text into llm_text
ErrorMessageLeak(error_message) ==
    ServerMessage("error", None,
                  IF llm_response = None THEN Some("") ELSE llm_response,
                  Some(error_message))

\* the ServerMessage built by send_error, lines 75-79
ErrorMessage(error_message) ==
    ServerMessage("error", None, Some(""), Some(error_message))

\* except Exception as e: send_error(websocket, f"Processing error: {str(e)}")
ProcessingError(e) == "Processing error: " \o e

\* except ValidationError: send_error(websocket, "Invalid message format")
InvalidFormat == "Invalid message format"

\* websocket.send_json(frame): raises when the channel is broken
SendOk == chan = "open"
Sending(frame) == Append(sent, [frame |-> frame, ok |-> SendOk])
Logging(frame) == Append(log, [n |-> nRecv, type |-> frame.type, ok |-> SendOk])

\* the connections of the concurrent specification, and what their clients
\* and the two endpoints may do there
Conns == {"c1", "c2"}
ConnFrames ==
    { [kind |-> "notjson", data |-> JsonString("hello")],
      [kind |-> "json", data |-> JsonObject(Some(JsonString("")))],
      [kind |-> "json", data |-> JsonObject(Some(JsonString("Hello")))] }
ConnLlmOutcomes ==
    { [kind |-> "ok", content |-> "Hi there"], [kind |-> "status", content |-> ""] }
ConnTtsOutcomes ==
    { [kind |-> "ok", content |-> <<0, 1>>, status |-> 200],
      [kind |-> "status", content |-> <<>>, status |-> 500] }

\* the locals of a handle_websocket task that has not yet accepted
InitConn ==
    [ pc |-> "accept", chan |-> "open", n |-> 0, message |-> None,
      llm_response |-> None, audio_bytes |-> <<>>, response |-> None,
      err |-> "", raised |-> None, req |-> None, sent |-> <<>>,
      llm_calls |-> <<>>, tts_calls |-> <<>>, llm_result |-> None,
      tts_result |-> None ]

Init ==
    /\ pc = "accept"
    /\ chan = "open"
    /\ nRecv = 0
    /\ message = None
    /\ llm_response = None
    /\ audio_bytes = <<>>
    /\ response = None
    /\ err = ""
    /\ raised = None
    /\ closeAttempts = 0
    /\ close_failed = FALSE
    /\ req = None
    /\ sent = <<>>
    /\ llm_calls = <<>>
    /\ tts_calls = <<>>
    /\ llm_result = None
    /\ tts_result = None
    /\ send_failed = FALSE
    /\ log = <<>>
    /\ disc_at = None
    /\ cs = [c \in Conns |-> InitConn]

\* await websocket.accept(), line 20
Accept ==
    /\ pc = "accept"
    /\ pc' = "receive"
    /\ UNCHANGED << chan, nRecv, message, llm_response, audio_bytes, response,
                    err, raised, closeAttempts, close_failed, req, sent,
                    llm_calls, tts_calls, llm_result, tts_result, send_failed >>
    /\ UNCHANGED << log, disc_at >>
    /\ UNCHANGED cs

\* the client goes away (or the transport fails) at any await
Disconnect ==
    /\ pc \notin {"accept", "done"}
    /\ chan = "open"
    /\ chan' = "broken"
    /\ UNCHANGED << pc, nRecv, message, llm_response, audio_bytes, response,
                    err, raised, closeAttempts, close_failed, req, sent,
                    llm_calls, tts_calls, llm_result, tts_result, send_failed >>
    /\ disc_at' = Some(pc)
    /\ UNCHANGED log
    /\ UNCHANGED cs

\* the except ValidationError clause continuing without calling send_error
AfterReceiveSilent(frame) ==
    LET r == receive_json(frame)
        m == ClientMessage(r.data)
    IN  IF r.exc # None
            THEN [pc |-> "close", raised |-> r.exc, message |-> None, err |-> err]
        ELSE IF m.exc = None
            THEN [pc |-> "llm", raised |-> None, message |-> Some(m.text), err |-> err]
        ELSE IF m.exc = Some("ValidationError")
            THEN [pc |-> "receive", raised |-> None, message |-> None, err |-> err]
        ELSE [pc |-> "close", raised |-> m.exc, message |-> None, err |-> err]

\* where the handler goes after reading a frame, lines 30-38: a valid
\* message goes on to the services, ValidationError to send_error, and any
\* other exception is caught by no clause and leaves through finally.
AfterReceive(frame) ==
    LET r == receive_json(frame)
        m == ClientMessage(r.data)
    IN  IF r.exc # None
            THEN [pc |-> "close", raised |-> r.exc, message |-> None, err |-> err]
        ELSE IF m.exc = None
            THEN [pc |-> "llm", raised |-> None, message |-> Some(m.text), err |-> err]
        ELSE IF m.exc = Some("ValidationError")
            THEN [pc |-> "send_error", raised |-> None, message |-> None,
                  err |-> InvalidFormat]
        ELSE [pc |-> "close", raised |-> m.exc, message |-> None, err |-> err]

\* data = await websocket.receive_json(); message = ClientMessage(**data)
Receive ==
    /\ pc = "receive"
    /\ chan = "open"
    /\ nRecv < MaxMsgs
    /\ \E frame \in InFrames :
         LET a == AfterReceive(frame)
         IN  /\ pc' = a.pc
             /\ raised' = a.raised
             /\ message' = a.message
             /\ err' = a.err
             /\ req' = Some(frame)
    /\ nRecv' = nRecv + 1
    /\ sent' = <<>>
    /\ llm_calls' = <<>>
    /\ tts_calls' = <<>>
    /\ llm_result' = None
    /\ tts_result' = None
    /\ UNCHANGED << chan, llm_response, audio_bytes, response, closeAttempts,
                    close_failed, send_failed >>
    /\ UNCHANGED << log, disc_at >>
    /\ UNCHANGED cs

\* the disconnect answered by continue instead of break
AfterDisconnectRetry == "receive"

\* the disconnect handled like a validation failure: report and continue
AfterDisconnectContinue == "send_error"

\* where the handler goes when receive_json raises WebSocketDisconnect or
\* RuntimeError, lines 36-38: break
AfterDisconnect == "close"

\* receive_json on a broken channel
ReceiveDisconnect ==
    /\ pc = "receive"
    /\ chan = "broken"
    /\ pc' = AfterDisconnect
    /\ err' = IF pc' = "send_error" THEN InvalidFormat ELSE err
    /\ UNCHANGED << chan, nRecv, message, llm_response, audio_bytes, response,
                    raised, closeAttempts, close_failed, req, sent, llm_calls,
                    tts_calls, llm_result, tts_result, send_failed >>
    /\ UNCHANGED << log, disc_at >>
    /\ UNCHANGED cs

\* an empty generated text answered locally instead of being synthesized
AfterLLMSkipEmpty(resp) ==
    IF resp = Some("")
        THEN [pc |-> "send_error", err |-> ProcessingError("empty text")]
        ELSE [pc |-> "tts", err |-> err]

\* where the handler goes when get_llm_response returns, lines 42-43:
\* whatever was returned is passed on to get_tts_audio
AfterLLM(resp) == [pc |-> "tts", err |-> err]

\* llm_response = await get_llm_response(message.text), line 42
CallLLM ==
    /\ pc = "llm"
    /\ \E outcome \in LlmOutcomes :
         LET resp == get_llm_response(message[1], outcome)
             a == AfterLLM(resp)
         IN  /\ llm_response' = resp
             /\ llm_result' = Some(outcome)
             /\ pc' = a.pc
             /\ err' = a.err
    /\ llm_calls' = Append(llm_calls, LlmPayload(message[1]))
    /\ UNCHANGED << chan, nRecv, message, audio_bytes, response, raised,
                    closeAttempts, close_failed, req, sent, tts_calls,
                    tts_result, send_failed >>
    /\ UNCHANGED << log, disc_at >>
    /\ UNCHANGED cs

\* an except clause that continues without calling send_error
AfterTTSSilent(r) ==
    IF r.exc = None
        THEN [pc |-> "send_audio", err |-> err]
        ELSE [pc |-> "receive", err |-> err]

\* where the handler goes when get_tts_audio returns or raises: lines 46-54
\* on success, the except clause of lines 57-60 on an exception
AfterTTS(r) ==
    IF r.exc = None
        THEN [pc |-> "send_audio", err |-> err]
        ELSE [pc |-> "send_error", err |-> ProcessingError(r.exc[1])]

\* audio_bytes = await get_tts_audio(llm_response), line 43, and the
\* encoding and construction of the response, lines 46-51
CallTTS ==
    /\ pc = "tts"
    /\ \E outcome \in TtsOutcomes :
         LET r == get_tts_audio(llm_response, outcome)
             a == AfterTTS(r)
         IN  /\ tts_result' = Some(outcome)
             /\ pc' = a.pc
             /\ err' = a.err
             /\ IF r.exc = None
                  THEN /\ audio_bytes' = r.content
                       /\ response' = Some(model_dump(AudioMessage(b64encode(r.content),
                                                                   llm_response)))
                  ELSE UNCHANGED << audio_bytes, response >>
    /\ tts_calls' = Append(tts_calls, TtsPayload(llm_response))
    /\ UNCHANGED << chan, nRecv, message, llm_response, raised, closeAttempts,
                    close_failed, req, sent, llm_calls, llm_result, send_failed >>
    /\ UNCHANGED << log, disc_at >>
    /\ UNCHANGED cs

\* await websocket.send_json(response.model_dump()), line 54; a failure of
\* the send is an Exception like any other and reaches line 57
SendAudio ==
    /\ pc = "send_audio"
    /\ sent' = Sending(response[1])
    /\ IF SendOk
         THEN /\ pc' = "receive"
              /\ UNCHANGED << err, send_failed >>
         ELSE /\ pc' = "send_error"
              /\ err' = ProcessingError("")
              /\ send_failed' = TRUE
    /\ UNCHANGED << chan, nRecv, message, llm_response, audio_bytes, response,
                    raised, closeAttempts, close_failed, req, llm_calls,
                    tts_calls, llm_result, tts_result >>
    /\ log' = Logging(response[1])
    /\ UNCHANGED disc_at
    /\ UNCHANGED cs

\* send_error, lines 73-82: a failure of the send is swallowed; both callers
\* continue with the next iteration of the loop
SendError ==
    /\ pc = "send_error"
    /\ sent' = Sending(model_dump(ErrorMessage(err)))
    /\ send_failed' = (send_failed \/ ~SendOk)
    /\ pc' = "receive"
    /\ UNCHANGED << chan, nRecv, message, llm_response, audio_bytes, response,
                    err, raised, closeAttempts, close_failed, req, llm_calls,
                    tts_calls, llm_result, tts_result >>
    /\ log' = Logging(model_dump(ErrorMessage(err)))
    /\ UNCHANGED disc_at
    /\ UNCHANGED cs

\* a finally block without the inner try: a failure of close is raised
AfterCloseRaises(failed) == IF failed THEN Some("RuntimeError") ELSE raised

\* what leaves the finally block, lines 61-67: the bare except swallows a
\* failure of close, so only an exception that escaped the loop is raised
AfterClose(failed) == raised

\* finally: await websocket.close()
Close ==
    /\ pc = "close"
    /\ closeAttempts' = closeAttempts + 1
    /\ \E failed \in (IF chan = "broken" THEN {TRUE, FALSE} ELSE {FALSE}) :
         /\ close_failed' = failed
         /\ raised' = AfterClose(failed)
    /\ pc' = "done"
    /\ UNCHANGED << chan, nRecv, message, llm_response, audio_bytes, response,
                    err, req, sent, llm_calls, tts_calls, llm_result,
                    tts_result, send_failed >>
    /\ UNCHANGED << log, disc_at >>
    /\ UNCHANGED cs

Next ==
    \/ Accept
    \/ Disconnect
    \/ Receive
    \/ ReceiveDisconnect
    \/ CallLLM
    \/ CallTTS
    \/ SendAudio
    \/ SendError
    \/ Close

Spec == Init /\ [][Next]_vars

\* The steps of the handler task. The event loop resumes the task whenever
\* the await it is suspended at completes: both upstream calls are bounded by
\* settings.request_timeout, and a send, a close, or a receive on a broken
\* channel returns or raises. Nothing obliges the client to send a message.
Handler ==
    \/ Accept
    \/ ReceiveDisconnect
    \/ CallLLM
    \/ CallTTS
    \/ SendAudio
    \/ SendError
    \/ Close

FairSpec == Spec /\ WF_vars(Handler)

\* ------------------------------------------- several connections at once
\* main.py hands every connection to its own handle_websocket call, a task
\* of the event loop. The handler keeps its state in locals only, and both
\* clients build their request and their httpx.AsyncClient inside the call,
\* so a task's step is a function of its own locals s: Steps gives the
\* states the task can be in after its next await, with the same control
\* flow as the actions above.

\* a request that also carries the previous answer of the connection
LlmCallWithHistory(s) ==
    [ LlmPayload(s.message[1]) EXCEPT
        !.messages = (IF s.llm_response = None THEN <<>>
                      ELSE << [role |-> "assistant", content |-> s.llm_response[1]] >>)
                     \o @ ]

\* get_llm_response(message.text), line 42: the call is given the text of
\* the current message and nothing else
LlmCall(s) == LlmPayload(s.message[1])

Steps(s, frames, llms, ttss, maxn) ==
    IF s.pc = "accept" THEN { [s EXCEPT !.pc = "receive"] }
    ELSE IF s.pc = "receive" THEN
        IF s.chan = "broken" THEN
            { [s EXCEPT !.pc = AfterDisconnect,
                        !.err = IF AfterDisconnect = "send_error"
                                  THEN InvalidFormat ELSE @] }
        ELSE IF s.n >= maxn THEN {}
        ELSE { LET a == AfterReceive(f)
               IN  [s EXCEPT !.pc = a.pc, !.raised = a.raised,
                             !.message = a.message,
                             !.err = IF a.pc = "send_error" THEN a.err ELSE @,
                             !.req = Some(f), !.n = @ + 1, !.sent = <<>>,
                             !.llm_calls = <<>>, !.tts_calls = <<>>,
                             !.llm_result = None, !.tts_result = None]
               : f \in frames }
    ELSE IF s.pc = "llm" THEN
        { LET resp == get_llm_response(s.message[1], o)
              a == AfterLLM(resp)
          IN  [s EXCEPT !.llm_response = resp, !.llm_result = Some(o),
                        !.pc = a.pc,
                        !.err = IF a.pc = "send_error" THEN a.err ELSE @,
                        !.llm_calls = Append(@, LlmCall(s))]
          : o \in llms }
    ELSE IF s.pc = "tts" THEN
        { LET r == get_tts_audio(s.llm_response, o)
              a == AfterTTS(r)
          IN  [s EXCEPT !.tts_result = Some(o), !.pc = a.pc,
                        !.err = IF a.pc = "send_error" THEN a.err ELSE @,
                        !.audio_bytes = IF r.exc = None THEN r.content ELSE @,
                        !.response =
                            IF r.exc = None
                              THEN Some(model_dump(AudioMessage(b64encode(r.content),
                                                                s.llm_response)))
                              ELSE @,
                        !.tts_calls = Append(@, TtsPayload(s.llm_response))]
          : o \in ttss }
    ELSE IF s.pc = "send_audio" THEN
        { [s EXCEPT !.sent = Append(@, [frame |-> s.response[1],
                                        ok |-> s.chan = "open"]),
                    !.pc = IF s.chan = "open" THEN "receive" ELSE "send_error",
                    !.err = IF s.chan = "open" THEN @ ELSE ProcessingError("")] }
    ELSE IF s.pc = "send_error" THEN
        { [s EXCEPT !.sent = Append(@, [frame |-> model_dump(ErrorMessage(s.err)),
                                        ok |-> s.chan = "open"]),
                    !.pc = "receive"] }
    ELSE IF s.pc = "close" THEN { [s EXCEPT !.pc = "done"] }
    ELSE {}

HandlerSteps(s) ==
    Steps(s, ConnFrames, ConnLlmOutcomes, ConnTtsOutcomes, MaxConnMsgs)

\* an upstream call that blocks the event loop: no other task runs while
\* one is inside get_llm_response or get_tts_audio
RunnableBlocking(c) ==
    \A d \in Conns \ {c} : cs[d].pc \notin {"llm", "tts"}

\* every wait of a task is an await (receive_json, client.post, send_json,
\* close), which hands control back to the event loop: a task whose await
\* has completed runs whatever the other tasks are waiting for
Runnable(c) == TRUE

Singles ==
    << pc, chan, nRecv, message, llm_response, audio_bytes, response, err,
       raised, closeAttempts, close_failed, req, sent, llm_calls, tts_calls,
       llm_result, tts_result, send_failed, log, disc_at >>

\* connection c's task runs to its next await
ConnStep(c) ==
    /\ Runnable(c)
    /\ \E t \in HandlerSteps(cs[c]) : cs' = [cs EXCEPT ![c] = t]
    /\ UNCHANGED Singles

\* the client of connection c goes away
ConnDisconnect(c) ==
    /\ cs[c].pc \notin {"accept", "done"}
    /\ cs[c].chan = "open"
    /\ cs' = [cs EXCEPT ![c].chan = "broken"]
    /\ UNCHANGED Singles

NextConns ==
    \/ \E c \in Conns : ConnStep(c)
    \/ \E c \in Conns : ConnDisconnect(c)

SpecConns == Init /\ [][NextConns]_vars

\* ------------------------------------------------------------------ types
TypeOK ==
    /\ pc \in {"accept", "receive", "llm", "tts", "send_audio", "send_error",
               "close", "done"}
    /\ chan \in {"open", "broken"}
    /\ nRecv \in 0..MaxMsgs
    /\ closeAttempts \in 0..1
    /\ Len(sent) <= 2

\* ------------------------------------------------- vocabulary of the claims
StartsWith(s, p) == Len(s) >= Len(p) /\ SubSeq(s, 1, Len(p)) = p
Contains(s, sub) ==
    \E i \in 1..(Len(s) - Len(sub) + 1) : SubSeq(s, i, i + Len(sub) - 1) = sub

\* the inverse of base64, for reading audio_data back
B64Index(c) == (CHOOSE i \in 1..64 : B64Chars[i] = c) - 1
RECURSIVE b64decode(_)
b64decode(s) ==
    IF Len(s) < 4 THEN <<>>
    ELSE LET ch(i) == SubSeq(s, i, i)
             val(i) == IF ch(i) = "=" THEN 0 ELSE B64Index(ch(i))
             pad == IF ch(3) = "=" THEN 2 ELSE IF ch(4) = "=" THEN 1 ELSE 0
             n == val(1) * 262144 + val(2) * 4096 + val(3) * 64 + val(4)
             bytes == << n \div 65536, (n \div 256) % 256, n % 256 >>
         IN  SubSeq(bytes, 1, 3 - pad) \o b64decode(SubSeq(s, 5, Len(s)))

\* the classes of inbound frames the claims speak of
IsObject(f) == f.kind = "json" /\ f.data.t = "object"
HasValidText(f) ==
    /\ IsObject(f)
    /\ f.data.text # None
    /\ f.data.text[1].t = "string"
    /\ Len(f.data.text[1].s) >= 1
    /\ Len(f.data.text[1].s) <= 2000
HasInvalidText(f) == IsObject(f) /\ ~HasValidText(f)

LlmFailed == llm_result # None /\ llm_result[1].kind # "ok"
LlmSucceeded == llm_result # None /\ llm_result[1].kind = "ok"
TtsFailed == tts_result # None /\ tts_result[1].kind # "ok"
TtsSucceeded == tts_result # None /\ tts_result[1].kind = "ok"

InvalidFormatFrame ==
    [type |-> "error", error_message |-> "Invalid message format", llm_text |-> ""]

Frames == { sent[i].frame : i \in 1..Len(sent) }

\* ------------------------------------------------------------------- C1
\* C1: a valid message on a channel that stays usable gets exactly one
\* frame, of type audio or error, before the next message is read, whatever
\* the two upstream calls return: none while the pipeline runs, one (and
\* delivered) once the handler is back at the receive.
ExactlyOneFrame ==
    (req # None /\ HasValidText(req[1]) /\ chan = "open") =>
        /\ pc \in {"llm", "tts", "send_audio", "send_error", "receive"}
        /\ (pc = "receive") <=> (Len(sent) = 1)
        /\ (pc # "receive") <=> (Len(sent) = 0)
        /\ \A i \in 1..Len(sent) :
              sent[i].ok /\ sent[i].frame.type \in {"audio", "error"}

ExactlyOneFrameWitness ==
    /\ req # None /\ HasValidText(req[1]) /\ chan = "open"
    /\ LlmSucceeded /\ TtsFailed
    /\ pc = "receive"
    /\ Len(sent) = 1 /\ sent[1].ok /\ sent[1].frame.type = "error"

\* ------------------------------------------------------------------- C2
\* C2: a JSON object whose text is missing, not a string, empty or longer
\* than 2000 characters is answered by one send of the fixed error frame,
\* with no upstream call, and the handler goes back to the receive: it
\* leaves the loop afterwards only when the client channel breaks.
InvalidTextRejected ==
    (req # None /\ HasInvalidText(req[1])) =>
        /\ llm_calls = <<>> /\ tts_calls = <<>>
        /\ raised = None
        /\ pc \in {"send_error", "receive", "close", "done"}
        /\ (pc = "send_error") <=> (Len(sent) = 0)
        /\ (pc # "send_error") <=> (Len(sent) = 1)
        /\ Frames \subseteq {InvalidFormatFrame}
        /\ (pc \in {"close", "done"} => chan = "broken")
        /\ (chan = "open" => \A i \in 1..Len(sent) : sent[i].ok)

InvalidTextRejectedWitness ==
    /\ req # None /\ HasInvalidText(req[1])
    /\ req[1].data.text # None /\ Len(req[1].data.text[1].s) > 2000
    /\ pc = "receive" /\ chan = "open"
    /\ Len(sent) = 1 /\ sent[1].ok /\ sent[1].frame = InvalidFormatFrame

\* ------------------------------------------------------------------- C3
\* C3: a frame that is not JSON, or JSON that is not an object, is answered
\* like any validation failure: the fixed error frame, the connection left
\* open, the handler back at the receive, no exception out of
\* handle_websocket.
UnparseableRejected ==
    (req # None /\ ~IsObject(req[1])) =>
        /\ raised = None
        /\ llm_calls = <<>> /\ tts_calls = <<>>
        /\ Frames \subseteq {InvalidFormatFrame}
        /\ (pc \in {"close", "done"} => chan = "broken")

\* ------------------------------------------------------------------- C4
\* C4: when the text-generation call of a request fails, the speech service
\* is not called for it and every frame sent for it is an error frame.
LlmFailureSkipsTts ==
    LlmFailed =>
        /\ tts_calls = <<>>
        /\ \A f \in Frames : f.type = "error"

\* ------------------------------------------------------------------- C5
\* C5: when text generation succeeded and speech synthesis failed, the one
\* frame sent for the request is an error frame whose error_message starts
\* with "Processing error: " and whose llm_text is empty; a non-empty
\* generated text occurs in no field of it.
TtsFailureHidesText ==
    (LlmSucceeded /\ TtsFailed) =>
        /\ pc \in {"send_error", "receive", "close", "done"}
        /\ (pc = "send_error") <=> (Len(sent) = 0)
        /\ (pc # "send_error") <=> (Len(sent) = 1)
        /\ \A f \in Frames :
              /\ DOMAIN f = {"type", "error_message", "llm_text"}
              /\ f.type = "error"
              /\ StartsWith(f.error_message, "Processing error: ")
              /\ f.llm_text = ""
              /\ llm_result[1].content # "" =>
                    \A k \in DOMAIN f : ~Contains(f[k], llm_result[1].content)

TtsFailureHidesTextWitness ==
    /\ LlmSucceeded /\ llm_result[1].content = "Hi there"
    /\ TtsFailed /\ tts_result[1].kind = "status"
    /\ pc = "receive"
    /\ Len(sent) = 1 /\ sent[1].ok
    /\ sent[1].frame.error_message = "Processing error: OpenAI TTS error: 500"

\* ------------------------------------------------------------------- C6
\* C6: an audio frame is sent for a request only if both upstream calls of
\* that request succeeded; its llm_text is the generated text, its
\* audio_data decodes to the bytes the speech service returned, and the
\* speech service was called once, with that generated text.
AudioOnlyOnSuccess ==
    \A f \in Frames :
        f.type = "audio" =>
            /\ LlmSucceeded /\ TtsSucceeded
            /\ "llm_text" \in DOMAIN f
            /\ f.llm_text = llm_result[1].content
            /\ b64decode(f.audio_data) = tts_result[1].content
            /\ tts_calls = << TtsPayload(Some(llm_result[1].content)) >>

\* ------------------------------------------------------------------- C7
\* C7: every frame sent has exactly the fields of its variant: audio frames
\* carry type, audio_data and llm_text, error frames carry type,
\* error_message and an empty llm_text.
FrameShape ==
    \A f \in Frames :
        \/ f.type = "audio" /\ DOMAIN f = {"type", "audio_data", "llm_text"}
        \/ /\ f.type = "error"
           /\ DOMAIN f = {"type", "error_message", "llm_text"}
           /\ f.llm_text = ""

\* ------------------------------------------------------------------- C8
\* C8: no validation failure and no upstream failure lets an exception
\* leave handle_websocket or ends the loop: the handler leaves the loop
\* only when the client channel is broken.
RecoverableNeverCloses ==
    /\ raised = None
    /\ (pc \in {"close", "done"} => chan = "broken")

\* ------------------------------------------------------------------- C9
\* C9: once the send of a response frame has failed, the handler reads no
\* further message and calls no upstream service; from the receive its next
\* step leaves the loop for the close.
SendFailureCloses ==
    [][ send_failed =>
          /\ nRecv' = nRecv
          /\ req' = req
          /\ llm_calls' = llm_calls
          /\ tts_calls' = tts_calls
          /\ (pc = "receive" => pc' = "close")
          /\ pc' \in {"send_error", "receive", "close", "done"} ]_vars

SendFailureClosesWitness ==
    /\ send_failed
    /\ pc = "done"
    /\ closeAttempts = 1
    /\ Len(sent) = 2
    /\ sent[1].frame.type = "audio" /\ ~sent[1].ok

\* ------------------------------------------------------------------ C10
\* C10: however the loop ends, websocket.close is called exactly once, and
\* a failure of that call is never what handle_websocket raises.
CloseOnce ==
    /\ closeAttempts <= 1
    /\ (pc = "done") <=> (closeAttempts = 1)
    /\ (pc = "done" => raised \in {None, Some("JSONDecodeError"), Some("TypeError")})
    /\ (close_failed => pc = "done")

CloseOnceWitness ==
    /\ pc = "done"
    /\ closeAttempts = 1
    /\ close_failed
    /\ raised = Some("JSONDecodeError")

\* ------------------------------------------------------------------ C11
IsOk(e) == e.ok
Delivered == SelectSeq(log, IsOk)

\* C11: on one connection the frames go out in the order the messages came
\* in: the k-th frame delivered answers the k-th message read, the sends
\* are never out of order, every message read before the current one had its
\* send attempted, and nothing has been sent yet for a message whose
\* pipeline is still running.
InOrder ==
    /\ \A k \in 1..Len(Delivered) : Delivered[k].n = k
    /\ \A i, j \in 1..Len(log) : i < j => log[i].n <= log[j].n
    /\ \A k \in 1..(nRecv - 1) : \E i \in 1..Len(log) : log[i].n = k
    /\ pc \in {"llm", "tts", "send_audio"} =>
          \A i \in 1..Len(log) : log[i].n < nRecv

InOrderWitness ==
    /\ nRecv = 2
    /\ Len(Delivered) = 2
    /\ Delivered[1].type = "error"
    /\ Delivered[2].type = "audio"
    /\ pc = "receive"

\* ------------------------------------------------------------------ C12
\* the client channel broke while a request was in Processing
DisconnectedInProcessing ==
    disc_at # None /\ disc_at[1] \in {"llm", "tts", "send_audio", "send_error"}

\* C12 as stated: a disconnect during Processing aborts the pipeline: after
\* a disconnect during the text-generation call the speech service is not
\* called, and no frame of the request is delivered.
DisconnectAborts ==
    DisconnectedInProcessing =>
        /\ (disc_at[1] = "llm" => tts_calls = <<>>)
        /\ \A i \in 1..Len(sent) : ~sent[i].ok

\* C12 as amended: after a disconnect during Processing no frame of the
\* request is delivered, no further message is read and the connection
\* reaches Closed; the pipeline is not aborted: the speech service is still
\* called after a disconnect during the text-generation call, and the
\* handler leaves the loop only from the next receive.
DisconnectClosesLate ==
    /\ [](DisconnectedInProcessing => \A i \in 1..Len(sent) : ~sent[i].ok)
    /\ [][ DisconnectedInProcessing =>
             /\ nRecv' = nRecv
             /\ req' = req
             /\ (pc' = "close" => pc \in {"receive", "close"}) ]_vars
    /\ (DisconnectedInProcessing ~> pc = "done")
    /\ (disc_at = Some("llm") ~> Len(tts_calls) = 1)

DisconnectClosesLateWitness ==
    /\ disc_at = Some("llm")
    /\ Len(tts_calls) = 1
    /\ Len(sent) = 2 /\ ~sent[1].ok /\ sent[1].frame.type = "audio" /\ ~sent[2].ok
    /\ pc = "done"

\* ------------------------------------------------------------------ C13
\* C13: when the receive finds the client channel broken the handler leaves
\* the loop, handle_websocket returns, and after the close attempt nothing
\* more is received, sent or asked of an upstream service.
DisconnectWhileWaiting ==
    /\ ((pc = "receive" /\ chan = "broken") ~> pc = "done")
    /\ [][ (pc = "receive" /\ chan = "broken") => pc' \in {"receive", "close"} ]_vars
    /\ [][ pc = "done" =>
             /\ pc' = "done"
             /\ nRecv' = nRecv
             /\ log' = log
             /\ llm_calls' = llm_calls
             /\ tts_calls' = tts_calls
             /\ closeAttempts' = closeAttempts ]_vars

DisconnectWhileWaitingWitness ==
    /\ disc_at = Some("receive")
    /\ pc = "done"
    /\ closeAttempts = 1
    /\ raised = None

\* ------------------------------------------------------------------ C15
\* C15: nothing is retried: at most one text-generation call and one
\* speech-synthesis call per request, and a failed upstream call leads
\* directly to the error frame: after it no further upstream call is made
\* and only error frames are sent for the request.
NoRetry ==
    /\ Len(llm_calls) <= 1
    /\ Len(tts_calls) <= 1
    /\ TtsFailed =>
          /\ pc \in {"send_error", "receive", "close", "done"}
          /\ \A f \in Frames : f.type = "error"
    /\ LlmFailed =>
          /\ pc \in {"send_error", "receive", "close", "done"}
          /\ tts_calls = <<>>
          /\ \A f \in Frames : f.type = "error"

\* ------------------------------------------------------------------ C16
\* C16: when text generation succeeded, speech synthesis is called exactly
\* once, with the generated text, also when that text is empty; if the
\* speech service then fails, only error frames are sent, no exception
\* leaves the handler and the loop is left only on a broken channel.
GeneratedTextSynthesized ==
    LlmSucceeded =>
        /\ (pc = "tts") <=> (Len(tts_calls) = 0)
        /\ (pc # "tts") <=> (Len(tts_calls) = 1)
        /\ \A i \in 1..Len(tts_calls) :
              tts_calls[i].input = Some(llm_result[1].content)
        /\ TtsFailed =>
              /\ \A f \in Frames : f.type = "error"
              /\ raised = None
              /\ (pc \in {"close", "done"} => chan = "broken")

GeneratedTextSynthesizedWitness ==
    /\ LlmSucceeded /\ llm_result[1].content = ""
    /\ tts_calls = << [model |-> "tts-model", input |-> Some(""),
                       voice |-> "voice", response_format |-> "mp3"] >>
    /\ TtsFailed /\ tts_result[1].status = 400
    /\ pc = "receive" /\ chan = "open"
    /\ Len(sent) = 1 /\ sent[1].ok /\ sent[1].frame.type = "error"

\* ------------------------------------------------------------------ C18
\* C18: every request to the chat-completion endpoint carries the model
\* identifier, the max-token bound, the temperature, a system instruction
\* and, as the only conversational turn, the user's text.
LlmRequestShape ==
    \A i \in 1..Len(llm_calls) :
        LET p == llm_calls[i]
        IN  /\ DOMAIN p = {"model", "messages", "max_tokens", "temperature"}
            /\ p.model = settings.llm_model
            /\ p.max_tokens = settings.llm_max_tokens
            /\ p.temperature = settings.llm_temperature
            /\ Len(p.messages) = 2
            /\ p.messages[1].role = "system"
            /\ p.messages[2] = [role |-> "user", content |-> message[1]]

\* ------------------------------------------- the two forms of the handler
\* the locals and history of the single connection, as a record
Loc ==
    [ pc |-> pc, chan |-> chan, n |-> nRecv, message |-> message,
      llm_response |-> llm_response, audio_bytes |-> audio_bytes,
      response |-> response, err |-> err, raised |-> raised, req |-> req,
      sent |-> sent, llm_calls |-> llm_calls, tts_calls |-> tts_calls,
      llm_result |-> llm_result, tts_result |-> tts_result ]

\* every step of the single connection is a step of Steps, or the client
\* going away
StepsAgree ==
    [][ Loc' \in Steps(Loc, InFrames, LlmOutcomes, TtsOutcomes, MaxMsgs)
                   \cup { [Loc EXCEPT !.chan = "broken"] } ]_vars

\* ------------------------------------------------------------------ C14
\* a task that, by its own state, has a step to take
CanProceed(c) == HandlerSteps(cs[c]) # {}

CurrentText(s) == s.req[1].data.text[1].s

\* C17: requests are processed without memory: the chat request built for
\* a message has that message's text as its only turn, and two connections
\* answering the same message with the same upstream outcomes send the same
\* frames, whatever each of them received before.
NoMemory ==
    /\ \A c \in Conns : \A i \in 1..Len(cs[c].llm_calls) :
          cs[c].llm_calls[i].messages =
              << [role |-> "user", content |-> CurrentText(cs[c])] >>
    /\ \A c \in Conns : \A d \in Conns \ {c} :
          ( /\ cs[c].req # None
            /\ cs[c].req = cs[d].req
            /\ cs[c].llm_result = cs[d].llm_result
            /\ cs[c].tts_result = cs[d].tts_result ) =>
              \A i \in 1..Len(cs[c].sent) :
                  i <= Len(cs[d].sent) => cs[c].sent[i].frame = cs[d].sent[i].frame

NoMemoryWitness ==
    /\ cs["c1"].n = 2 /\ cs["c2"].n = 1
    /\ cs["c1"].llm_response = Some("Hi there")
    /\ cs["c1"].req = cs["c2"].req
    /\ cs["c1"].req[1].data.text = Some(JsonString(""))
    /\ Len(cs["c1"].sent) = 1 /\ Len(cs["c2"].sent) = 1
    /\ cs["c1"].sent[1].frame = cs["c2"].sent[1].frame

====
